---- MODULE Spec2Model ----
(***************************************************************************)
(* Model of the CWA Predictor page (src/cwa_app.py): the Streamlit script  *)
(* of the "Grade Calculator" page and the function predict_scores_cvxpy    *)
(* it calls at the end of every run.                                       *)
(*                                                                         *)
(* Numbers.  Averages, credits and points are integers.  A score as the    *)
(* LP backend returns it is an exact fraction [num, den]; a score as       *)
(* predict_scores_cvxpy returns it (after np.round(x, 2)) is an integer    *)
(* number of hundredths, so 3500 is the score 35.00.                       *)
(*                                                                         *)
(* The LP.  prob.solve() is modelled by what it computes: the status is    *)
(* "optimal" when the constraint set is non-empty and "infeasible" when    *)
(* it is empty, and scores.value is a point of the optimal face.  Which    *)
(* point of a degenerate optimal face the backend lands on is its own      *)
(* business; the model lets it choose (see Picks).                         *)
(***************************************************************************)
EXTENDS Integers, Sequences, FiniteSets, TLC

VARIABLES
    courses_list,           \* st.session_state.courses_list
    final_courses,          \* st.session_state.final_courses
    target_cwa,             \* widget "Target CWA (0-100)"
    courses_taken,          \* widget "Courses Taken"
    total_credits,          \* widget "Total Credit Hours for the new semester"
    current_cwa,            \* widget "Current CWA"
    current_total_credits,  \* widget "Current total credit hours"
    banner,                 \* what the credit comparison of the last run showed
    call,                   \* the arguments of the last predict_scores_cvxpy call
    ret,                    \* what that call returned (or that it raised)
    solved,                 \* whether the last run invoked predict_scores_cvxpy
    card,                   \* what the Goal Feasibility card of the last run shows
    leads,                  \* aura_web: st.session_state.leads
    testimonial_index,      \* aura_web: st.session_state.testimonial_index
    form,                   \* aura_web: what the contact form sent in the last run
    errors,                 \* aura_web: the errors list of the last run
    notice                  \* aura_web: what the contact form showed in the last run

\* the state of cwa_app.py
cwa_state == <<courses_list, final_courses, target_cwa, courses_taken, total_credits,
               current_cwa, current_total_credits, banner, call, ret, solved, card>>

\* the state of aura_web.py
aura_state == <<leads, testimonial_index, form, errors, notice>>

vars == <<courses_list, final_courses, target_cwa, courses_taken, total_credits,
          current_cwa, current_total_credits, banner, call, ret, solved, card,
          leads, testimonial_index, form, errors, notice>>

\* a run of aura_web.py in which the contact form was not sent
NoForm == [submitted |-> FALSE, name |-> <<>>, email |-> <<>>, org |-> <<>>,
           msg |-> <<>>]

\* aura_web.py after the first run of its script
AuraInit ==
    /\ leads = <<>>
    /\ testimonial_index = 0
    /\ form = NoForm
    /\ errors = <<>>
    /\ notice = "none"

----------------------------------------------------------------------------
(* Bounds and input sets *)

MaxCourses == 2

\* names a row can carry in the function-level specification
SolveNames == {"A", "B"}
\* credits a row can carry in the function-level specification
SolveCredits == {-1, 0, 1, 2, 3}
\* averages (current and target) in the function-level specification
SolveAverages == {-1, 0, 1, 85, 90, 100, 101}
\* prior credit totals in the function-level specification
SolvePriorCredits == {-1, 0, 1, 30}

\* sequences over S of length at most n
SeqUpTo(S, n) == UNION {[1..k -> S] : k \in 0..n}

----------------------------------------------------------------------------
(* cvxpy status strings and the marker of an unavailable score *)

OPTIMAL == "optimal"
OPTIMAL_INACCURATE == "optimal_inaccurate"
INFEASIBLE == "infeasible"
INFEASIBLE_INACCURATE == "infeasible_inaccurate"

NA == [kind |-> "N/A", val |-> 0]
Num(h) == [kind |-> "num", val |-> h]

----------------------------------------------------------------------------
(* Arithmetic helpers *)

Abs(x) == IF x < 0 THEN -x ELSE x
MinOf(a, b) == IF a < b THEN a ELSE b
MaxOf(a, b) == IF a > b THEN a ELSE b

\* credits = np.array([float(c["credit"]) for c in courses])
CreditsOf(courses) == [i \in 1..Len(courses) |-> courses[i].credit]

RECURSIVE SumSeq(_)
SumSeq(s) == IF s = <<>> THEN 0 ELSE s[1] + SumSeq(Tail(s))

\* np.round(x, 2) of the fraction q, in hundredths: rint(100 * x), ties to even
Round2(q) ==
    LET n100 == 100 * q.num
        fl   == n100 \div q.den
        r2   == 2 * (n100 % q.den)
    IN  IF r2 < q.den THEN fl
        ELSE IF r2 > q.den THEN fl + 1
        ELSE IF fl % 2 = 0 THEN fl ELSE fl + 1

----------------------------------------------------------------------------
(* predict_scores_cvxpy *)

\* mutant: the current average taken for the points already earned
RequiredPointsUnweighted(courses, ctc, cwa, target) ==
    LET prev_points         == cwa
        total_credits_after == ctc + SumSeq(CreditsOf(courses))
        target_points       == target * total_credits_after
    IN  target_points - prev_points

\* required_points = target_cwa * (current_total_credits + credits.sum())
\*                   - current_cwa * current_total_credits
RequiredPoints(courses, ctc, cwa, target) ==
    LET prev_points         == cwa * ctc
        total_credits_after == ctc + SumSeq(CreditsOf(courses))
        target_points       == target * total_credits_after
    IN  target_points - prev_points

\* the largest and the smallest value credits @ scores takes on 0 <= scores <= 100
MaxPoints(credits) ==
    SumSeq([i \in 1..Len(credits) |-> 100 * MaxOf(credits[i], 0)])
MinPoints(credits) ==
    SumSeq([i \in 1..Len(credits) |-> 100 * MinOf(credits[i], 0)])

\* mutant: the boundary required = MaxPoints taken for infeasible
ProbStatusStrict(credits, required) ==
    IF required < MaxPoints(credits) THEN OPTIMAL ELSE INFEASIBLE

\* prob.status after prob.solve(): the constraints credits @ scores >= required,
\* 0 <= scores <= 100 have a solution exactly when required <= MaxPoints
ProbStatus(credits, required) ==
    IF required <= MaxPoints(credits) THEN OPTIMAL ELSE INFEASIBLE

\* mutant: cp.Maximize in place of cp.Minimize
OptimalValueOfMaximize(credits, required) == MaxPoints(credits)

\* the optimal value of Minimize(credits @ scores) on a non-empty constraint set
OptimalValue(credits, required) == MaxOf(required, MinPoints(credits))

\* The points of the optimal face the backend may return.  dist chooses how the
\* points above MinPoints are spread over the courses ("even": the same share
\* of every course's range; "greedy": course after course filled to its
\* limit); free is the score of a course with credit 0, which neither the
\* objective nor the constraint sees.
Dists == {"even", "greedy"}
FreeScores == {0, 100}
Picks == [dist : Dists, free : FreeScores]

EvenScores(credits, need, free) ==
    LET span == MaxPoints(credits) - MinPoints(credits)
    IN  [i \in 1..Len(credits) |->
            IF credits[i] > 0 THEN [num |-> 100 * need, den |-> span]
            ELSE IF credits[i] < 0 THEN [num |-> 100 * (span - need), den |-> span]
            ELSE [num |-> free, den |-> 1]]

\* mutant: the constraint scores <= 100 left out
RECURSIVE GreedyNoCap(_, _, _, _)
GreedyNoCap(credits, i, rem, free) ==
    IF i > Len(credits) THEN <<>>
    ELSE LET c    == credits[i]
             take == IF c = 0 THEN 0 ELSE rem
             q    == IF c > 0 THEN [num |-> take, den |-> c]
                     ELSE IF c < 0 THEN [num |-> 100 * Abs(c) - take, den |-> -c]
                     ELSE [num |-> free, den |-> 1]
         IN  <<q>> \o GreedyNoCap(credits, i + 1, rem - take, free)

RECURSIVE GreedyFrom(_, _, _, _)
GreedyFrom(credits, i, rem, free) ==
    IF i > Len(credits) THEN <<>>
    ELSE LET c    == credits[i]
             cap  == 100 * Abs(c)
             take == MinOf(rem, cap)
             q    == IF c > 0 THEN [num |-> take, den |-> c]
                     ELSE IF c < 0 THEN [num |-> cap - take, den |-> -c]
                     ELSE [num |-> free, den |-> 1]
         IN  <<q>> \o GreedyFrom(credits, i + 1, rem - take, free)

\* scores.value after a solve that ended "optimal"
ScoresValue(credits, required, pick) ==
    LET need == OptimalValue(credits, required) - MinPoints(credits)
    IN  IF pick.dist = "even" THEN EvenScores(credits, need, pick.free)
        ELSE GreedyFrom(credits, 1, need, pick.free)

\* the value a call that raised leaves behind
Raised(what) == [raised |-> TRUE, status |-> what, results |-> <<>>]

\* How the backend ended: within its tolerances ("accurate") or short of them
\* ("inaccurate"), in which case cvxpy reports the status with the suffix
\* _inaccurate.
Accuracies == {"accurate", "inaccurate"}

\* prob.status after a solve that ended with accuracy acc
BackendStatus(credits, required, acc) ==
    LET exact == ProbStatus(credits, required)
    IN  IF acc = "accurate" THEN exact
        ELSE IF exact = OPTIMAL THEN OPTIMAL_INACCURATE
        ELSE INFEASIBLE_INACCURATE

\* mutant: the rows of a solve without solution left out
ShapeResultsDropRows(courses, status, value) ==
    IF status \in {OPTIMAL, OPTIMAL_INACCURATE}
    THEN [raised  |-> FALSE,
          status  |-> status,
          results |-> [i \in 1..Len(courses) |->
                         [name   |-> courses[i].name,
                          credit |-> courses[i].credit,
                          score  |-> Num(Round2(value[i]))]]]
    ELSE [raised |-> FALSE, status |-> status, results |-> <<>>]

\* the rows and the status built from prob.status and scores.value; value is
\* read only under a status of the optimal family, where it is not None
ShapeResults(courses, status, value) ==
    IF status \in {OPTIMAL, OPTIMAL_INACCURATE}
    THEN [raised  |-> FALSE,
          status  |-> status,
          results |-> [i \in 1..Len(courses) |->
                         [name   |-> courses[i].name,
                          credit |-> courses[i].credit,
                          score  |-> Num(Round2(value[i]))]]]
    ELSE [raised  |-> FALSE,
          status  |-> status,
          results |-> [i \in 1..Len(courses) |->
                         [name   |-> courses[i].name,
                          credit |-> courses[i].credit,
                          score  |-> NA]]]

\* predict_scores_cvxpy on a backend that ends with accuracy acc
predict_scores_backend(courses, ctc, cwa, target, pick, acc) ==
    LET credits  == CreditsOf(courses)
        n        == Len(credits)
        required == RequiredPoints(courses, ctc, cwa, target)
        status   == BackendStatus(credits, required, acc)
        value    == ScoresValue(credits, required, pick)
    IN  \* scores = cp.Variable(n) with n = 0: cvxpy accepts only positive
        \* dimensions and raises ValueError("Invalid dimensions (0,).")
        IF n = 0 THEN Raised("ValueError")
        ELSE ShapeResults(courses, status, value)

\* predict_scores_cvxpy on a backend that meets its tolerances
predict_scores_cvxpy(courses, ctc, cwa, target, pick) ==
    predict_scores_backend(courses, ctc, cwa, target, pick, "accurate")

----------------------------------------------------------------------------
(* The function-level specification: the arguments are drawn from the input *)
(* sets, and the one action applies predict_scores_cvxpy to them.           *)

Pending == [raised |-> FALSE, status |-> "pending", results |-> <<>>]

SolveInputs ==
    [courses               : SeqUpTo([name : SolveNames, credit : SolveCredits], MaxCourses),
     current_total_credits : SolvePriorCredits,
     current_cwa           : SolveAverages,
     target_cwa            : SolveAverages]

InitSolve ==
    /\ call \in SolveInputs
    \* courses = st.session_state.final_courses: the rows passed are the
    \* submitted rows
    /\ final_courses = call.courses
    /\ courses_list = call.courses
    /\ target_cwa = 0
    /\ courses_taken = 0
    /\ total_credits = 0
    /\ current_cwa = 0
    /\ current_total_credits = 0
    /\ banner = "match"
    /\ card = "none"
    /\ ret = Pending
    /\ solved = FALSE
    /\ AuraInit

\* mutant: the call writes each score into the course dict it was given
InvokeWritingScores ==
    /\ ~solved
    /\ solved' = TRUE
    /\ ret' \in {predict_scores_cvxpy(call.courses, call.current_total_credits,
                                      call.current_cwa, call.target_cwa, pick) : pick \in Picks}
    /\ final_courses' = ret'.results
    /\ call' = [call EXCEPT !.courses = ret'.results]
    /\ UNCHANGED <<courses_list, target_cwa, courses_taken, total_credits,
                   current_cwa, current_total_credits, banner, card>>
    /\ UNCHANGED aura_state

Invoke ==
    /\ ~solved
    /\ solved' = TRUE
    /\ ret' \in {predict_scores_cvxpy(call.courses, call.current_total_credits,
                                      call.current_cwa, call.target_cwa, pick) : pick \in Picks}
    /\ UNCHANGED <<courses_list, final_courses, target_cwa, courses_taken,
                   total_credits, current_cwa, current_total_credits, banner,
                   call, card>>
    /\ UNCHANGED aura_state

NextSolve == Invoke

SpecSolve == InitSolve /\ [][NextSolve]_vars

----------------------------------------------------------------------------
(* The page: every user interaction reruns the whole script, so every      *)
(* action is the handler of the interaction followed by the rest of the    *)
(* script (the credit comparison, the solve and the feasibility card).     *)

MaxRows == 1

\* what the user can type into the widgets
NameInputs == {"", "A"}
CreditInputs == {0, 2}
TargetInputs == {0, 50, 101}
CurrentCwaInputs == {0, 101}
PriorCreditInputs == {0, -1}
TotalCreditInputs == {0, 2}
CoursesTakenInputs == 0..MaxRows

\* mutant: the final else branch of the card left out
RenderNoElse(r) ==
    IF r.raised THEN "exception"
    ELSE IF r.status \in {OPTIMAL, OPTIMAL_INACCURATE} THEN "success"
    ELSE IF r.status = INFEASIBLE THEN "infeasible"
    ELSE "none"

\* the Goal Feasibility card
Render(r) ==
    IF r.raised THEN "exception"
    ELSE IF r.status \in {OPTIMAL, OPTIMAL_INACCURATE} THEN "success"
    ELSE IF r.status = INFEASIBLE THEN "infeasible"
    ELSE "warning"

\* the credit comparison
Banner(courses, expected) ==
    LET total_entered_credits == SumSeq(CreditsOf(courses))
    IN  IF total_entered_credits = expected THEN "match" ELSE "mismatch"

\* the script from the credit comparison to its end, on the session state
\* and the widget values of this run
PageTail ==
    /\ banner' = Banner(final_courses', total_credits')
    /\ call' = [courses               |-> final_courses',
                current_total_credits |-> current_total_credits',
                current_cwa           |-> current_cwa',
                target_cwa            |-> target_cwa']
    /\ solved' = TRUE
    /\ ret' \in {predict_scores_cvxpy(final_courses', current_total_credits',
                                      current_cwa', target_cwa', pick) : pick \in Picks}
    /\ card' = Render(ret')
    /\ UNCHANGED aura_state

\* the state after the first run of the script
Init ==
    /\ courses_list = <<>>
    /\ final_courses = <<>>
    /\ target_cwa = 0
    /\ courses_taken = 0
    /\ total_credits = 0
    /\ current_cwa = 0
    /\ current_total_credits = 0
    /\ banner = "match"
    /\ call = [courses |-> <<>>, current_total_credits |-> 0,
               current_cwa |-> 0, target_cwa |-> 0]
    /\ solved = TRUE
    /\ ret = Raised("ValueError")
    /\ card = "exception"
    /\ AuraInit

SetTargetCwa(v) ==
    /\ target_cwa' = v
    /\ UNCHANGED <<courses_list, final_courses, courses_taken, total_credits,
                   current_cwa, current_total_credits>>
    /\ PageTail

SetCoursesTaken(v) ==
    /\ courses_taken' = v
    /\ UNCHANGED <<courses_list, final_courses, target_cwa, total_credits,
                   current_cwa, current_total_credits>>
    /\ PageTail

SetTotalCredits(v) ==
    /\ total_credits' = v
    /\ UNCHANGED <<courses_list, final_courses, target_cwa, courses_taken,
                   current_cwa, current_total_credits>>
    /\ PageTail

SetCurrentCwa(v) ==
    /\ current_cwa' = v
    /\ UNCHANGED <<courses_list, final_courses, target_cwa, courses_taken,
                   total_credits, current_total_credits>>
    /\ PageTail

SetCurrentTotalCredits(v) ==
    /\ current_total_credits' = v
    /\ UNCHANGED <<courses_list, final_courses, target_cwa, courses_taken,
                   total_credits, current_cwa>>
    /\ PageTail

\* mutant: <= in place of < in the room test of "Add Course"
AddCourseOffByOne ==
    /\ courses_list' = IF Len(courses_list) <= courses_taken
                       THEN Append(courses_list, [name |-> "", credit |-> 0])
                       ELSE courses_list
    /\ UNCHANGED <<final_courses, target_cwa, courses_taken, total_credits,
                   current_cwa, current_total_credits>>
    /\ PageTail

\* "Add Course": one blank row while there is room, a warning otherwise
AddCourse ==
    /\ courses_list' = IF Len(courses_list) < courses_taken
                       THEN Append(courses_list, [name |-> "", credit |-> 0])
                       ELSE courses_list
    /\ UNCHANGED <<final_courses, target_cwa, courses_taken, total_credits,
                   current_cwa, current_total_credits>>
    /\ PageTail

\* add_courses() with the text input of row i edited
EditName(i, v) ==
    /\ i \in 1..Len(courses_list)
    /\ courses_list' = [courses_list EXCEPT ![i].name = v]
    /\ UNCHANGED <<final_courses, target_cwa, courses_taken, total_credits,
                   current_cwa, current_total_credits>>
    /\ PageTail

\* mutant: Submit kept the row dicts themselves, so an edit shows in
\* final_courses
EditCreditAliased(i, v) ==
    /\ i \in 1..Len(courses_list)
    /\ courses_list' = [courses_list EXCEPT ![i].credit = v]
    /\ final_courses' = IF final_courses = <<>> THEN final_courses
                        ELSE [final_courses EXCEPT ![1].credit = v]
    /\ UNCHANGED <<target_cwa, courses_taken, total_credits,
                   current_cwa, current_total_credits>>
    /\ PageTail

\* add_courses() with the number input of row i edited
EditCredit(i, v) ==
    /\ i \in 1..Len(courses_list)
    /\ courses_list' = [courses_list EXCEPT ![i].credit = v]
    /\ UNCHANGED <<final_courses, target_cwa, courses_taken, total_credits,
                   current_cwa, current_total_credits>>
    /\ PageTail

\* mutant: the name filter of Submit left out
NamedKeepsAll(rows) ==
    [i \in 1..Len(rows) |-> [name |-> rows[i].name, credit |-> rows[i].credit]]

\* the rows Submit keeps: fresh copies of the rows with a name
RECURSIVE Named(_)
Named(rows) ==
    IF rows = <<>> THEN <<>>
    ELSE IF rows[1].name # ""
         THEN <<[name |-> rows[1].name, credit |-> rows[1].credit]>> \o Named(Tail(rows))
         ELSE Named(Tail(rows))

Submit ==
    /\ final_courses' = Named(courses_list)
    /\ UNCHANGED <<courses_list, target_cwa, courses_taken, total_credits,
                   current_cwa, current_total_credits>>
    /\ PageTail

\* "Reset Form" or "Export": a rerun with no handler
Rerun ==
    /\ UNCHANGED <<courses_list, final_courses, target_cwa, courses_taken,
                   total_credits, current_cwa, current_total_credits>>
    /\ PageTail

Next ==
    \/ \E v \in TargetInputs : SetTargetCwa(v)
    \/ \E v \in CoursesTakenInputs : SetCoursesTaken(v)
    \/ \E v \in TotalCreditInputs : SetTotalCredits(v)
    \/ \E v \in CurrentCwaInputs : SetCurrentCwa(v)
    \/ \E v \in PriorCreditInputs : SetCurrentTotalCredits(v)
    \/ AddCourse
    \/ \E i \in 1..MaxRows, v \in NameInputs : EditName(i, v)
    \/ \E i \in 1..MaxRows, v \in CreditInputs : EditCredit(i, v)
    \/ Submit
    \/ Rerun

Spec == Init /\ [][Next]_vars

----------------------------------------------------------------------------
(* The call site on any termination of the backend: the arguments are      *)
(* drawn from the input sets, the backend ends within or short of its      *)
(* tolerances, and the card is drawn from what the call returns.           *)

InvokeBackend ==
    /\ ~solved
    /\ solved' = TRUE
    /\ ret' \in {predict_scores_backend(call.courses, call.current_total_credits,
                                        call.current_cwa, call.target_cwa, pick, acc) :
                    pick \in Picks, acc \in Accuracies}
    /\ card' = Render(ret')
    /\ UNCHANGED <<courses_list, final_courses, target_cwa, courses_taken,
                   total_credits, current_cwa, current_total_credits, banner,
                   call>>
    /\ UNCHANGED aura_state

NextBackend == InvokeBackend

SpecBackend == InitSolve /\ [][NextBackend]_vars

----------------------------------------------------------------------------
(* aura_web.py: the contact form and the handlers around it.  A text is a  *)
(* sequence of characters; every interaction reruns the whole script, so   *)
(* each action is one run.  The form sends its four fields only when its   *)
(* button is pressed (st.form), and clear_on_submit empties them after.    *)

MaxLeads == 2

\* len(testimonials)
NumTestimonials == 3

ContactNames == {<<>>, <<" ">>, <<" ", "a">>}
ContactEmails == {<<"a">>, <<"a", "@">>, <<".">>, <<"@", ".", " ">>}
ContactOrgs == {<<>>, <<"o", " ">>}
ContactMessages == {<<>>, <<" ">>, <<"m", " ">>}

\* uuid.uuid4(): whatever the run draws
Uuids == {"u1", "u2"}
\* datetime.utcnow().isoformat(): nothing reads the stored timestamp, one
\* value stands for the clock
Timestamps == {"t1"}

IsSpace(ch) == ch = " "

\* str.strip()
Strip(s) ==
    IF \A i \in DOMAIN s : IsSpace(s[i]) THEN <<>>
    ELSE LET kept == {i \in DOMAIN s : ~IsSpace(s[i])}
             lo == CHOOSE i \in kept : \A j \in kept : i <= j
             hi == CHOOSE i \in kept : \A j \in kept : i >= j
         IN  SubSeq(s, lo, hi)

\* ch in s
Contains(ch, s) == \E i \in DOMAIN s : s[i] = ch

NAME_REQUIRED == "Name is required."
EMAIL_INVALID == "Please provide a valid email."
MESSAGE_REQUIRED == "Message is required."

\* mutant: the name and the message are tested as typed, not stripped
ValidateUnstripped(name, email, msg) ==
       (IF name = <<>> THEN <<NAME_REQUIRED>> ELSE <<>>)
    \o (IF ~Contains("@", email) \/ ~Contains(".", email)
        THEN <<EMAIL_INVALID>> ELSE <<>>)
    \o (IF msg = <<>> THEN <<MESSAGE_REQUIRED>> ELSE <<>>)

\* the errors list that the handler builds
Validate(name, email, msg) ==
       (IF Strip(name) = <<>> THEN <<NAME_REQUIRED>> ELSE <<>>)
    \o (IF ~Contains("@", email) \/ ~Contains(".", email)
        THEN <<EMAIL_INVALID>> ELSE <<>>)
    \o (IF Strip(msg) = <<>> THEN <<MESSAGE_REQUIRED>> ELSE <<>>)

\* the dict appended to leads
Lead(id, name, email, org, msg, timestamp) ==
    [id |-> id, name |-> Strip(name), email |-> Strip(email),
     org |-> Strip(org), message |-> Strip(msg), timestamp |-> timestamp]

\* "Send message" pressed with these field values
SendMessage(name, email, org, msg) ==
    /\ form' = [submitted |-> TRUE, name |-> name, email |-> email,
                org |-> org, msg |-> msg]
    /\ errors' = Validate(name, email, msg)
    /\ IF errors' # <<>>
       THEN /\ notice' = "warning"
            /\ leads' = leads
       ELSE /\ Len(leads) < MaxLeads
            /\ \E id \in Uuids, timestamp \in Timestamps :
                  leads' = Append(leads, Lead(id, name, email, org, msg, timestamp))
            /\ notice' = "success"
    /\ UNCHANGED testimonial_index
    /\ UNCHANGED cwa_state

\* the contact form in a run in which its button was not pressed
FormIdle ==
    /\ form' = NoForm
    /\ errors' = <<>>
    /\ notice' = "none"
    /\ leads' = leads

\* "Prev" of the testimonial carousel
PrevTestimonial ==
    /\ testimonial_index' = (testimonial_index - 1) % NumTestimonials
    /\ FormIdle
    /\ UNCHANGED cwa_state

\* "Next" of the testimonial carousel
NextTestimonial ==
    /\ testimonial_index' = (testimonial_index + 1) % NumTestimonials
    /\ FormIdle
    /\ UNCHANGED cwa_state

\* any other button of the page (navigation, calls to action, "Email us"):
\* none of them reads or writes leads
OtherButton ==
    /\ FormIdle
    /\ UNCHANGED testimonial_index
    /\ UNCHANGED cwa_state

NextContact ==
    \/ \E name \in ContactNames, email \in ContactEmails,
          org \in ContactOrgs, msg \in ContactMessages :
          SendMessage(name, email, org, msg)
    \/ PrevTestimonial
    \/ NextTestimonial
    \/ OtherButton

SpecContact == Init /\ [][NextContact]_vars

----------------------------------------------------------------------------
(* The vocabulary of the properties, on the arguments and the result of    *)
(* the last call.                                                          *)

ArgCredits == CreditsOf(call.courses)
SumCredits == SumSeq(ArgCredits)

\* required_points of the call, as the contract defines it
Required ==
    call.target_cwa * (call.current_total_credits + SumCredits)
        - call.current_cwa * call.current_total_credits

\* a valid input: averages in [0, 100], no negative prior credits, every
\* course credit positive
ValidInput ==
    /\ call.current_cwa \in 0..100
    /\ call.target_cwa \in 0..100
    /\ call.current_total_credits >= 0
    /\ \A i \in DOMAIN call.courses : call.courses[i].credit > 0

\* the call of the last run returned a result
Returned == solved /\ ~ret.raised

\* sum(credit_i * score_i) over the returned rows, in hundredths of a point
WeightedSum ==
    SumSeq([i \in DOMAIN ret.results |->
              ret.results[i].credit * ret.results[i].score.val])

\* C1: every valid input whose required_points exceeds 100 * (sum of the course
\* credits) gets the status INFEASIBLE.
C1_InfeasibleAboveMax ==
    (solved /\ ValidInput /\ Required > 100 * SumCredits)
        => (~ret.raised /\ ret.status = INFEASIBLE)

\* C2: every valid input with required_points <= 0 gets the status OPTIMAL with
\* every score 0; for the empty course list that is OPTIMAL with no rows.
C2_ZeroScoresWhenMet ==
    (solved /\ ValidInput /\ Required <= 0)
        => /\ ~ret.raised
           /\ ret.status = OPTIMAL
           /\ Len(ret.results) = Len(call.courses)
           /\ \A i \in DOMAIN ret.results : ret.results[i].score = Num(0)

\* C3: every valid input with 0 < required_points <= 100 * (sum of the course
\* credits) gets the status OPTIMAL.
C3_OptimalWhenReachable ==
    (solved /\ ValidInput /\ 0 < Required /\ Required <= 100 * SumCredits)
        => (~ret.raised /\ ret.status = OPTIMAL)

\* a call exactly on the feasibility boundary that came back optimal
C3_Witness ==
    /\ solved /\ ValidInput
    /\ Required > 0 /\ Required = 100 * SumCredits
    /\ ~ret.raised /\ ret.status = OPTIMAL

\* C4: in every OPTIMAL result the rounded scores still reach required_points
\* up to the relative tolerance 1e-6:
\* sum(credit_i * score_i) >= required_points - 1e-6 * |required_points|.
C4_RoundedMeetsRequired ==
    (Returned /\ ValidInput /\ ret.status = OPTIMAL)
        => LET short == 100 * Required - WeightedSum     \* in hundredths
           IN  short <= 0 \/ 10000 * short <= Abs(Required)

\* C5: in every OPTIMAL result for courses of positive credit the total
\* weighted score is max(required_points, 0) up to the rounding of the scores
\* (half a hundredth per credit); for one course of credit c that makes the
\* score the hundredth nearest to required_points / c, and it is 35 for
\* required 105 and credit 3.
ScenarioC ==
    /\ Len(call.courses) = 1 /\ call.courses[1].credit = 3
    /\ call.current_cwa = 90 /\ call.current_total_credits = 30
    /\ call.target_cwa = 85

C5_MinimumTotal ==
    (Returned /\ ret.status = OPTIMAL /\ \A i \in DOMAIN call.courses : call.courses[i].credit > 0)
        => /\ 2 * Abs(WeightedSum - 100 * MaxOf(Required, 0)) <= SumCredits
           /\ ScenarioC => ret.results[1].score = Num(3500)

\* Scenario C solved, and a solve whose exact scores are not multiples of 0.01
C5_Witness ==
    /\ Returned /\ ScenarioC /\ Required = 105
    /\ ret.status = OPTIMAL /\ WeightedSum = 10500

\* C6: every score of every returned result is a number within [0, 100] or the
\* marker "N/A".
C6_ScoresInRange ==
    Returned =>
        \A i \in DOMAIN ret.results :
            \/ ret.results[i].score = NA
            \/ /\ ret.results[i].score.kind = "num"
               /\ ret.results[i].score.val >= 0
               /\ ret.results[i].score.val <= 10000

\* an optimal result with one course at the upper limit and another strictly
\* inside the range
C6_Witness ==
    /\ Returned /\ ValidInput
    /\ ret.status = OPTIMAL
    /\ \E i \in DOMAIN ret.results : ret.results[i].score = Num(10000)
    /\ \E i \in DOMAIN ret.results : ret.results[i].score.val \in 1..9999

\* C7: a call with no courses, valid averages and required_points > 0 returns the status
\* INFEASIBLE with no rows; it does not raise.
C7_EmptyIsInfeasible ==
    (solved /\ ValidInput /\ call.courses = <<>> /\ Required > 0)
        => (~ret.raised /\ ret.status = INFEASIBLE /\ ret.results = <<>>)

\* C8: a run whose submitted credits differ from the expected total does not
\* invoke predict_scores_cvxpy and renders no solve result.
C8_NoSolveOnMismatch ==
    banner = "mismatch"
        => (~solved /\ card \notin {"success", "infeasible", "warning"})

\* C9: no course with credit <= 0 is part of the courses argument of a call.
C9_NoNonPositiveCredit ==
    solved => \A i \in DOMAIN call.courses : call.courses[i].credit > 0

\* C10: no call gets current_total_credits < 0 or an average outside [0, 100].
C10_NoOutOfRangeState ==
    solved => /\ call.current_total_credits >= 0
              /\ call.current_cwa \in 0..100
              /\ call.target_cwa \in 0..100

\* the closed set of statuses of the contract; "optimal" and "infeasible" are
\* its OPTIMAL and INFEASIBLE
NUMERICAL_ISSUE == "NUMERICAL_ISSUE"
ContractStatuses == {OPTIMAL, INFEASIBLE, NUMERICAL_ISSUE}

\* C11: a solve on a valid input that ends neither optimal nor infeasible returns the status
\* NUMERICAL_ISSUE with every score "N/A", and the card shows no scores.
C11_NumericalIssueShaped ==
    (Returned /\ ValidInput /\ ret.status \notin {OPTIMAL, INFEASIBLE})
        => /\ ret.status = NUMERICAL_ISSUE
           /\ \A i \in DOMAIN ret.results : ret.results[i].score = NA
           /\ card # "success"

\* C12: the status of every result returned for a valid input is one of OPTIMAL, INFEASIBLE,
\* NUMERICAL_ISSUE.
C12_StatusInClosedSet ==
    (Returned /\ ValidInput) => ret.status \in ContractStatuses

\* C13: for every status returned the card shows exactly one of three
\* messages: success with the table of scores for a status of the optimal
\* family and only for it, the feasibility failure for INFEASIBLE and only for
\* it, the solver-issue warning for every other status.
C13_OneMessagePerStatus ==
    Returned =>
        /\ card \in {"success", "infeasible", "warning"}
        /\ card = "success" <=> ret.status \in {OPTIMAL, OPTIMAL_INACCURATE}
        /\ card = "infeasible" <=> ret.status = INFEASIBLE
        /\ card = "success" =>
              \A i \in DOMAIN ret.results : ret.results[i].score.kind = "num"

\* a status outside the optimal family and other than INFEASIBLE, shown as the
\* warning
C13_Witness ==
    /\ Returned
    /\ ret.status = INFEASIBLE_INACCURATE
    /\ card = "warning"

\* C17: the result has one row per input course, in input order, and row i
\* carries the name and the credit of input course i, whatever the status.
C17_RowsMirrorCourses ==
    Returned =>
        /\ Len(ret.results) = Len(call.courses)
        /\ \A i \in DOMAIN call.courses :
              /\ ret.results[i].name = call.courses[i].name
              /\ ret.results[i].credit = call.courses[i].credit

\* two courses of different names and credits, returned without solution
C17_Witness ==
    /\ Returned
    /\ Len(call.courses) = 2
    /\ call.courses[1].name # call.courses[2].name
    /\ call.courses[1].credit # call.courses[2].credit
    /\ ret.status \notin {OPTIMAL, OPTIMAL_INACCURATE}
    /\ Len(ret.results) = 2

\* C15: a call of predict_scores_cvxpy leaves its courses argument,
\* courses_list and final_courses as they were.
C15_NoSideEffects ==
    [][(~solved /\ solved')
          => /\ call' = call
             /\ courses_list' = courses_list
             /\ final_courses' = final_courses]_vars

\* a call on two submitted rows that returned
C15_Witness ==
    /\ Returned
    /\ Len(call.courses) = 2
    /\ final_courses = call.courses
    /\ courses_list = call.courses

\* C16: after Submit, final_courses is the subsequence of the rows of
\* courses_list with a non-empty name, in order and with name and credit
\* unchanged; no row with an empty name is part of the solver input.
HasName(c) == c.name # ""

C18_EditsDoNotReachSolver ==
    [][courses_list' # courses_list
          => /\ final_courses' = final_courses
             /\ call'.courses = final_courses]_vars

\* a submitted row edited afterwards, the solver still on the submitted one
C18_Witness ==
    /\ Len(final_courses) = 1 /\ Len(courses_list) = 1
    /\ final_courses[1].name = courses_list[1].name
    /\ final_courses[1].credit # courses_list[1].credit
    /\ call.courses = final_courses

\* C19: with current_total_credits = 0 the result does not depend on
\* current_cwa: whatever the current average, what the call returned (status
\* and scores) is a result of the same call with a current average of 0, so
\* any two calls that differ only in current_cwa return the same.
C19_AverageIrrelevantWithoutCredits ==
    (solved /\ call.current_total_credits = 0)
        => \E pick \in Picks :
              ret = predict_scores_cvxpy(call.courses, 0, 0, call.target_cwa, pick)

\* a solve with no prior credits, a current average of 90 and scores above 0
C19_Witness ==
    /\ Returned
    /\ call.current_total_credits = 0
    /\ call.current_cwa = 90
    /\ ret.status = OPTIMAL
    /\ \E i \in DOMAIN ret.results : ret.results[i].score.val > 0

\* C20 as stated: in every reachable state len(courses_list) <= courses_taken.
C20_LenWithinTaken == Len(courses_list) <= courses_taken

\* C20 as amended: Add Course appends one blank row when
\* len(courses_list) < courses_taken and leaves the list alone otherwise; a
\* step that lengthens the list is such an append, and right after it
\* len(courses_list) <= courses_taken.
C20_AddOnlyBelowTaken ==
    [][/\ AddCourse =>
            IF Len(courses_list) < courses_taken
            THEN courses_list' = Append(courses_list, [name |-> "", credit |-> 0])
            ELSE courses_list' = courses_list
       /\ Len(courses_list') # Len(courses_list) =>
            /\ Len(courses_list) < courses_taken
            /\ courses_list' = Append(courses_list, [name |-> "", credit |-> 0])
            /\ Len(courses_list') <= courses_taken']_vars

\* the list filled up to courses_taken
C20_Witness ==
    /\ Len(courses_list) > 0
    /\ Len(courses_list) = courses_taken

----------------------------------------------------------------------------
(* The contact form of aura_web.py *)

NonBlank(s) == \E i \in DOMAIN s : s[i] # " "

\* what the form should accept
Acceptable(f) ==
    /\ NonBlank(f.name)
    /\ Contains("@", f.email)
    /\ Contains(".", f.email)
    /\ NonBlank(f.msg)

IsPrefix(s, t) == Len(s) <= Len(t) /\ SubSeq(t, 1, Len(s)) = s

\* C21: a submission of the contact form is appended to leads if and only
\* if its name is non-blank, its email contains "@" and "." and its message
\* is non-blank; a rejected submission leaves leads unchanged; and no step
\* removes or changes an entry that leads already holds.
C21_LeadsAppendIffValid ==
    [][/\ IsPrefix(leads, leads')
       /\ form'.submitted =>
            /\ (Len(leads') = Len(leads) + 1) <=> Acceptable(form')
            /\ ~Acceptable(form') => leads' = leads]_vars

\* two accepted submissions, the second one just stored
C21_Witness ==
    /\ Len(leads) >= 2
    /\ form.submitted
    /\ Acceptable(form)
    /\ notice = "success"
    /\ leads[Len(leads)].name = Strip(form.name)

====
